---- MODULE Spec2Model ----
(***************************************************************************)
(* State-machine model of the Rekordbox path remapper (the single-file     *)
(* Vue component of rekordbox-utils).  Strings of the program are          *)
(* sequences of one-character strings, so that the path codec and the      *)
(* tokenizer are computed the way the code computes them.                  *)
(*                                                                         *)
(* The actions are the handlers of the component's script.  A synchronous  *)
(* handler is one action.  The two asynchronous handlers                   *)
(* (parseRekordboxFile, pickHiResDirectory) are cut at their await: the    *)
(* other handlers can run while the awaited promise is pending, and the    *)
(* buttons that start them are disabled while their in-flight flag is set. *)
(***************************************************************************)
EXTENDS Integers, Sequences, FiniteSets, TLC

(***************************************************************************)
(* Bounds of the model                                                     *)
(***************************************************************************)
\* longest track collection among the descriptors offered to the loader
MaxTracks == 2

(***************************************************************************)
(* Characters and the string built-ins the code relies on                  *)
(***************************************************************************)
\* printable ASCII, code points 32..126, in code-point order (the double quote
\* and the backtick are written by name)
Ascii ==
    << " ", "!", "dquote", "#", "$", "%", "&", "'", "(", ")", "*", "+", ",", "-", ".", "/",
       "0", "1", "2", "3", "4", "5", "6", "7", "8", "9", ":", ";", "<", "=", ">", "?",
       "@", "A", "B", "C", "D", "E", "F", "G", "H", "I", "J", "K", "L", "M", "N", "O",
       "P", "Q", "R", "S", "T", "U", "V", "W", "X", "Y", "Z", "[", "\\", "]", "^", "_",
       "backtick", "a", "b", "c", "d", "e", "f", "g", "h", "i", "j", "k", "l", "m", "n", "o",
       "p", "q", "r", "s", "t", "u", "v", "w", "x", "y", "z", "{", "|", "}", "~" >>

AsciiChars == {Ascii[i] : i \in 1..Len(Ascii)}

\* code point of each printable ASCII character
CharCodes == [c \in AsciiChars |-> 31 + (CHOOSE i \in 1..Len(Ascii) : Ascii[i] = c)]

CharCode(c) == CharCodes[c]

\* character of a code point in 32..126
FromCharCode(n) == Ascii[n - 31]

UpperChars == {Ascii[i] : i \in 34..59}

LowerChars == {Ascii[i] : i \in 66..91}

DigitChars == {Ascii[i] : i \in 17..26}

IsUpper(c) == c \in UpperChars

IsLowerAlpha(c) == c \in LowerChars

IsDigit(c) == c \in DigitChars

\* String.prototype.toLowerCase, character by character
LowerCaseOf == [c \in AsciiChars |-> IF c \in UpperChars THEN Ascii[CharCodes[c] + 1] ELSE c]

LowerChar(c) == LowerCaseOf[c]

\* String.prototype.toLowerCase
toLowerCase(s) == [i \in 1..Len(s) |-> LowerChar(s[i])]

\* String.prototype.startsWith
startsWith(s, p) == Len(s) >= Len(p) /\ SubSeq(s, 1, Len(p)) = p

\* String.prototype.slice(from) with a 0-based start
sliceFrom(s, from) == SubSeq(s, from + 1, Len(s))

\* String.prototype.slice(0, to) with a 0-based exclusive end
sliceTo(s, to) == SubSeq(s, 1, to)

\* 0-based index of the first occurrence of p in s, -1 when there is none
indexOf(s, p) ==
    IF \E i \in 0..(Len(s) - Len(p)) : SubSeq(s, i + 1, i + Len(p)) = p
    THEN CHOOSE i \in 0..(Len(s) - Len(p)) :
            /\ SubSeq(s, i + 1, i + Len(p)) = p
            /\ \A j \in 0..(i - 1) : SubSeq(s, j + 1, j + Len(p)) # p
    ELSE -1

\* String.prototype.includes
includes(s, p) == indexOf(s, p) >= 0

\* String.prototype.lastIndexOf for a one-character pattern, 0-based
lastIndexOf(s, c) ==
    IF \E i \in 1..Len(s) : s[i] = c
    THEN (CHOOSE i \in 1..Len(s) : s[i] = c /\ \A j \in (i + 1)..Len(s) : s[j] # c) - 1
    ELSE -1

\* String.prototype.replace(pattern, empty) with a string pattern: first occurrence only
removeFirst(s, p) ==
    LET i == indexOf(s, p)
    IN  IF i < 0 THEN s ELSE sliceTo(s, i) \o sliceFrom(s, i + Len(p))

\* replace(/^p/i, empty): an anchored, case-insensitive prefix (p is lower case)
removePrefixIgnoreCase(s, p) ==
    IF startsWith(toLowerCase(s), p) THEN sliceFrom(s, Len(p)) ELSE s

\* replace(/[backslash]/g, slash)
backslashesToSlashes(s) == [i \in 1..Len(s) |-> IF s[i] = "\\" THEN "/" ELSE s[i]]

\* replace(/[slash]+$/, empty)
RECURSIVE removeTrailingSlashes(_)
removeTrailingSlashes(s) ==
    IF Len(s) > 0 /\ s[Len(s)] = "/"
    THEN removeTrailingSlashes(SubSeq(s, 1, Len(s) - 1))
    ELSE s

\* replace(/^[slash]/, empty)
removeLeadingSlash(s) == IF Len(s) > 0 /\ s[1] = "/" THEN Tail(s) ELSE s

RECURSIVE trimStart(_)
trimStart(s) == IF Len(s) > 0 /\ s[1] = " " THEN trimStart(Tail(s)) ELSE s

RECURSIVE trimEnd(_)
trimEnd(s) ==
    IF Len(s) > 0 /\ s[Len(s)] = " " THEN trimEnd(SubSeq(s, 1, Len(s) - 1)) ELSE s

\* String.prototype.trim
trim(s) == trimEnd(trimStart(s))

(***************************************************************************)
(* encodeURI / decodeURI on printable ASCII                                *)
(***************************************************************************)
HexDigitsUpper == <<"0", "1", "2", "3", "4", "5", "6", "7", "8", "9", "A", "B", "C", "D", "E", "F">>

HexChars == DigitChars \cup {"a", "b", "c", "d", "e", "f", "A", "B", "C", "D", "E", "F"}

IsHex(c) == c \in HexChars

HexVal(c) ==
    IF IsDigit(c) THEN CharCode(c) - 48
    ELSE IF IsUpper(c) THEN CharCode(c) - 55
    ELSE CharCode(c) - 87

\* characters encodeURI leaves alone: letters, digits, uriReserved, uriMark and "#"
UriUnescaped ==
    {"-", "_", ".", "!", "~", "*", "'", "(", ")",
     ";", "/", "?", ":", "@", "&", "=", "+", "$", ",", "#"}

\* characters decodeURI never produces from an escape (uriReserved and "#")
UriReservedPlusHash == {";", "/", "?", ":", "@", "&", "=", "+", "$", ",", "#"}

\* the escape of each printable ASCII character under encodeURI
UriEscapes ==
    [c \in AsciiChars |->
        IF c \in UpperChars \cup LowerChars \cup DigitChars \cup UriUnescaped
        THEN <<c>>
        ELSE <<"%", HexDigitsUpper[(CharCodes[c] \div 16) + 1], HexDigitsUpper[(CharCodes[c] % 16) + 1]>>]

encodeURIChar(c) == UriEscapes[c]

RECURSIVE encodeURI(_)
encodeURI(s) == IF s = <<>> THEN <<>> ELSE encodeURIChar(Head(s)) \o encodeURI(Tail(s))

\* the value decodeURI throws (URIError) is modelled by this token
URIError == <<"URIError">>

\* decodeURI of s from 1-based position i; URIError when an escape is malformed
\* or names a byte outside ASCII that does not start a modelled sequence
RECURSIVE decodeURIFrom(_, _)
decodeURIFrom(s, i) ==
    IF i > Len(s) THEN <<>>
    ELSE IF s[i] # "%"
    THEN LET rest == decodeURIFrom(s, i + 1)
         IN  IF rest = URIError THEN URIError ELSE <<s[i]>> \o rest
    ELSE IF i + 2 > Len(s) \/ ~IsHex(s[i + 1]) \/ ~IsHex(s[i + 2])
    THEN URIError
    ELSE LET byte == 16 * HexVal(s[i + 1]) + HexVal(s[i + 2])
             rest == decodeURIFrom(s, i + 3)
         IN  IF byte < 32 \/ byte > 126 THEN URIError
             ELSE IF rest = URIError THEN URIError
             ELSE IF FromCharCode(byte) \in UriReservedPlusHash
             THEN SubSeq(s, i, i + 2) \o rest
             ELSE <<FromCharCode(byte)>> \o rest

decodeURI(s) == decodeURIFrom(s, 1)

(***************************************************************************)
(* PathCodec                                                               *)
(***************************************************************************)
FileLocalhost == <<"f", "i", "l", "e", ":", "/", "/", "l", "o", "c", "a", "l", "h", "o", "s", "t">>

FileBare == <<"f", "i", "l", "e", ":", "/", "/">>

\* a decode that strips the prefix and leaves the escapes
decodeRekordboxPathRaw(path) ==
    IF path = <<>> THEN <<>>
    ELSE removeFirst(removeFirst(path, FileLocalhost), FileBare)

decodeRekordboxPath(path) ==
    IF path = <<>> THEN <<>>
    ELSE LET cleaned == removeFirst(removeFirst(path, FileLocalhost), FileBare)
         IN  IF decodeURI(cleaned) = URIError THEN cleaned ELSE decodeURI(cleaned)

hasDrivePrefix(joined) ==
    Len(joined) >= 2 /\ (IsUpper(joined[1]) \/ IsLowerAlpha(joined[1])) /\ joined[2] = ":"

\* cleanedBase of buildRekordboxPath: trimmed, prefix removed, slashes normalized
cleanedBase(base) ==
    removeTrailingSlashes(backslashesToSlashes(
        removePrefixIgnoreCase(removePrefixIgnoreCase(trim(base), FileLocalhost), FileBare)))

\* joined of buildRekordboxPath, after the leading slash is put in place
joinedPath(base, relative) ==
    LET cleanedRelative == backslashesToSlashes(removeLeadingSlash(relative))
        joined == cleanedBase(base) \o <<"/">> \o cleanedRelative
    IN  IF ~hasDrivePrefix(joined) /\ ~startsWith(joined, <<"/">>)
        THEN <<"/">> \o joined ELSE joined

\* an encode that puts nothing between the host and a drive letter
buildRekordboxPathHostOnly(base, relative) ==
    encodeURI(FileLocalhost \o joinedPath(base, relative))

\* an encode that gives a drive-letter path the bare prefix
buildRekordboxPathBare(base, relative) ==
    LET joined == joinedPath(base, relative)
        prefix == IF startsWith(joined, <<"/">>) THEN FileLocalhost ELSE FileBare
    IN  encodeURI(prefix \o joined)

buildRekordboxPath(base, relative) ==
    LET joined == joinedPath(base, relative)
        prefix == IF startsWith(joined, <<"/">>) THEN FileLocalhost ELSE FileLocalhost \o <<"/">>
    IN  encodeURI(prefix \o joined)

(***************************************************************************)
(* Tokenizer and MatchScorer                                               *)
(***************************************************************************)
IsAlnum(c) == IsLowerAlpha(c) \/ IsDigit(c)

\* tokens of an already lower-cased string: the maximal runs of [a-z0-9]
RECURSIVE tokensFrom(_, _, _)
tokensFrom(s, i, cur) ==
    IF i > Len(s) THEN (IF cur = <<>> THEN <<>> ELSE <<cur>>)
    ELSE IF IsAlnum(s[i]) THEN tokensFrom(s, i + 1, Append(cur, s[i]))
    ELSE (IF cur = <<>> THEN <<>> ELSE <<cur>>) \o tokensFrom(s, i + 1, <<>>)

tokenize(input) == tokensFrom(toLowerCase(input), 1, <<>>)

\* name.replace(/\\.[^.]+$/, empty): in the regex literal the two backslashes
\* are one literal backslash and the dot after them is the wildcard, so the
\* match is a backslash, one more character, and a dot-free non-empty rest
stripExtensionMatchAt(name, i) ==
    /\ name[i] = "\\"
    /\ i + 2 <= Len(name)
    /\ \A j \in (i + 2)..Len(name) : name[j] # "."

stripExtension(name) ==
    IF \E i \in 1..Len(name) : stripExtensionMatchAt(name, i)
    THEN LET i == CHOOSE k \in 1..Len(name) :
                     /\ stripExtensionMatchAt(name, k)
                     /\ \A j \in 1..(k - 1) : ~stripExtensionMatchAt(name, j)
         IN  SubSeq(name, 1, i - 1)
    ELSE name

Min(a, b) == IF a < b THEN a ELSE b

\* the title bonus, in thousandths
titleHit(track, file) ==
    IF includes(toLowerCase(stripExtension(file.name)),
                sliceTo(toLowerCase(track.title), Min(Len(track.title), 14)))
    THEN 150 ELSE 0

\* a score that adds the title bonus on top of a full overlap
scoreMatchUncapped(track, file) ==
    LET trackTokens == tokenize(track.artist \o <<" ">> \o track.title)
        fileTokens == tokenize(stripExtension(file.name))
        pathTokens == tokenize(file.relativePath)
        candidateTokens ==
            {fileTokens[i] : i \in 1..Len(fileTokens)} \cup {pathTokens[i] : i \in 1..Len(pathTokens)}
        common == Cardinality({i \in 1..Len(trackTokens) : trackTokens[i] \in candidateTokens})
        n == Len(trackTokens)
    IN  IF n = 0 THEN 0
        ELSE (2000 * common + 2 * n * titleHit(track, file) + n) \div (2 * n)

\* the score in thousandths: Number(Math.min(overlap + titleHit, 1).toFixed(3))
scoreMatch(track, file) ==
    LET trackTokens == tokenize(track.artist \o <<" ">> \o track.title)
        fileTokens == tokenize(stripExtension(file.name))
        pathTokens == tokenize(file.relativePath)
        candidateTokens ==
            {fileTokens[i] : i \in 1..Len(fileTokens)} \cup {pathTokens[i] : i \in 1..Len(pathTokens)}
        common == Cardinality({i \in 1..Len(trackTokens) : trackTokens[i] \in candidateTokens})
        n == Len(trackTokens)
    IN  IF n = 0 THEN 0
        ELSE Min((2000 * common + 2 * n * titleHit(track, file) + n) \div (2 * n), 1000)

(***************************************************************************)
(* String.prototype.localeCompare and Array.prototype.sort                 *)
(***************************************************************************)
\* primary collation order of the printable ASCII characters: white space,
\* punctuation, symbols, digits, letters (case is a lower-level difference)
CollationOrder ==
    << " ", "_", "-", ",", ";", ":", "!", "?", ".", "'", "dquote", "(", ")", "[", "]",
       "{", "}", "@", "*", "/", "\\", "&", "#", "%", "backtick", "^", "+", "<", "=", ">",
       "|", "~", "$", "0", "1", "2", "3", "4", "5", "6", "7", "8", "9",
       "a", "b", "c", "d", "e", "f", "g", "h", "i", "j", "k", "l", "m",
       "n", "o", "p", "q", "r", "s", "t", "u", "v", "w", "x", "y", "z" >>

CollationRanks ==
    [c \in AsciiChars |-> CHOOSE i \in 1..Len(CollationOrder) : CollationOrder[i] = LowerCaseOf[c]]

CollationRank(c) == CollationRanks[c]

\* lexicographic comparison of two sequences of ranks: -1, 0 or 1
RECURSIVE compareRanks(_, _, _)
compareRanks(a, b, i) ==
    IF i > Len(a) /\ i > Len(b) THEN 0
    ELSE IF i > Len(a) THEN -1
    ELSE IF i > Len(b) THEN 1
    ELSE IF a[i] < b[i] THEN -1
    ELSE IF a[i] > b[i] THEN 1
    ELSE compareRanks(a, b, i + 1)

\* a.localeCompare(b): letters and symbols first, then lower case before upper
localeCompare(a, b) ==
    LET primary == compareRanks([i \in 1..Len(a) |-> CollationRank(a[i])],
                                [i \in 1..Len(b) |-> CollationRank(b[i])], 1)
    IN  IF primary # 0 THEN primary
        ELSE compareRanks([i \in 1..Len(a) |-> IF IsUpper(a[i]) THEN 1 ELSE 0],
                          [i \in 1..Len(b) |-> IF IsUpper(b[i]) THEN 1 ELSE 0], 1)

\* comparator of the two sorts of the candidate list, by relativePath
byRelativePath(a, b) == localeCompare(a.relativePath, b.relativePath)

\* a comparator that leaves equal scores in the order they came in
byScoreOnly(a, b) == b.score - a.score

\* comparator of the ranking: score descending, then relativePath ascending
byScoreThenPath(a, b) ==
    IF b.score - a.score # 0 THEN b.score - a.score
    ELSE localeCompare(a.file.relativePath, b.file.relativePath)

\* the comparator of each of the two orders the code sorts by
compareBy(order, a, b) ==
    IF order = "relativePath" THEN byRelativePath(a, b) ELSE byScoreThenPath(a, b)

\* stable insertion of x into a list already sorted in the given order
RECURSIVE insertSorted(_, _, _)
insertSorted(sorted, x, order) ==
    IF sorted = <<>> THEN <<x>>
    ELSE IF compareBy(order, x, sorted[Len(sorted)]) >= 0 THEN Append(sorted, x)
    ELSE Append(insertSorted(SubSeq(sorted, 1, Len(sorted) - 1), x, order), sorted[Len(sorted)])

RECURSIVE sortFrom(_, _, _, _)
sortFrom(list, i, acc, order) ==
    IF i > Len(list) THEN acc
    ELSE sortFrom(list, i + 1, insertSorted(acc, list[i], order), order)

\* Array.prototype.sort(comparator), which is stable
sort(list, order) == sortFrom(list, 1, <<>>, order)

(***************************************************************************)
(* Inputs offered by the environment                                       *)
(***************************************************************************)
\* a TRACK element that carries a native TrackID
TrackNative ==
    [TrackID  |-> <<"7">>,
     Name     |-> <<"a">>,
     Artist   |-> <<"x">>,
     Album    |-> <<>>,
     BitRate  |-> <<"1", "2", "8">>,
     Location |-> <<"f", "i", "l", "e", ":", "/", "/", "l", "o", "c", "a", "l", "h", "o", "s", "t",
                    "/", "m", "/", "a", ".", "m", "p", "3">>]

\* a TRACK element without TrackID, Name and Artist attributes
TrackAnonymous ==
    [TrackID  |-> <<>>,
     Name     |-> <<>>,
     Artist   |-> <<>>,
     Album    |-> <<>>,
     BitRate  |-> <<>>,
     Location |-> <<"f", "i", "l", "e", ":", "/", "/", "l", "o", "c", "a", "l", "h", "o", "s", "t",
                    "/", "m", "/", "b", "%", "2", "0", "c", ".", "m", "p", "3">>]

\* the COLLECTION > TRACK elements of the longest descriptor, in document order;
\* the descriptors offered to the loader are its prefixes of up to MaxTracks entries
Library == <<TrackNative, TrackAnonymous, TrackNative, TrackAnonymous, TrackNative>>

Collections == {SubSeq(Library, 1, n) : n \in 0..MaxTracks}

\* what reading and parsing the chosen file yields: file.text() rejects, the
\* text is not well-formed XML, or the text is a descriptor
XmlReads ==
    {[kind |-> "rejected"], [kind |-> "malformed"]}
    \cup {[kind |-> "xml", collection |-> c] : c \in Collections}

\* the files of the new-audio folder, as the file input reports them
UploadA == [name |-> <<"a", ".", "m", "p", "3">>, webkitRelativePath |-> <<>>]

UploadB ==
    [name |-> <<"b", " ", "c", ".", "f", "l", "a", "c">>,
     webkitRelativePath |-> <<"/", "d", "/", "b", " ", "c", ".", "f", "l", "a", "c">>]

\* the FileList values of the folder input, in the order the browser lists them
FileLists == {<<UploadB, UploadA>>}

\* the directory trees behind the directory picker: entries in enumeration order
DirectoryTrees ==
    { << [kind |-> "directory", name |-> <<"d">>,
          entries |-> << [kind |-> "file", name |-> UploadB.name] >>],
         [kind |-> "file", name |-> UploadA.name] >> }

\* how a directory pick ends: the picker is dismissed, the enumeration
\* throws, or the tree is walked to the end
PickOutcomes ==
    {[kind |-> "cancelled"], [kind |-> "failed"]}
    \cup {[kind |-> "walked", entries |-> t] : t \in DirectoryTrees}

\* the option value all of the extension filter
AllTypes == <<"a", "l", "l">>

\* the base paths typed when the path codec is examined: POSIX style and
\* drive-letter style, with and without a prefix, a trailing slash, blanks
PathBases ==
    {<<"/", "n">>, <<"/", "n", "/">>, <<"f", "i", "l", "e", ":", "/", "/", "l", "o", "c", "a", "l", "h", "o", "s", "t", "/", "n">>, <<"F", "I", "L", "E", ":", "/", "/", "/", "n", " ">>,
     <<"C", ":", "\\", "m">>, <<"f", "i", "l", "e", ":", "/", "/", "c", ":", "/", "m">>}

PathReads == {[kind |-> "xml", collection |-> <<TrackNative, TrackAnonymous>>]}

\* the texts the user types into the base path field
BasePathInputs == {<<"/", "n">>, <<" ">>}

\* a TRACK element whose Name and Artist hold no letter or digit
TrackSymbols ==
    [TrackID  |-> <<"8">>,
     Name     |-> <<"?">>,
     Artist   |-> <<"!">>,
     Album    |-> <<>>,
     BitRate  |-> <<"3", "2", "0">>,
     Location |-> <<"f", "i", "l", "e", ":", "/", "/", "l", "o", "c", "a", "l", "h", "o", "s", "t", "/", "m", "/", "q", ".", "m", "p", "3">>]

\* a TRACK element named like a file extension
TrackExtension ==
    [TrackID  |-> <<"9">>,
     Name     |-> <<"m", "p", "3">>,
     Artist   |-> <<"y">>,
     Album    |-> <<>>,
     BitRate  |-> <<"2", "5", "6">>,
     Location |-> <<"f", "i", "l", "e", ":", "/", "/", "l", "o", "c", "a", "l", "h", "o", "s", "t", "/", "m", "/", "y", ".", "m", "p", "3">>]

\* a TRACK element that repeats the TrackID of TrackNative
TrackTwin ==
    [TrackID  |-> <<"7">>,
     Name     |-> <<"b", " ", "c">>,
     Artist   |-> <<"x">>,
     Album    |-> <<>>,
     BitRate  |-> <<"3", "2", "0">>,
     Location |-> <<"f", "i", "l", "e", ":", "/", "/", "l", "o", "c", "a", "l", "h", "o", "s", "t", "/", "m", "/", "b", "%", "2", "0", "c", ".", "m", "p", "3">>]

\* a TRACK element whose TrackID reads like the fallback id of the second entry
TrackPositional ==
    [TrackID  |-> <<"t", "r", "a", "c", "k", "-", "1">>,
     Name     |-> <<"x", " ", "a">>,
     Artist   |-> <<"x">>,
     Album    |-> <<>>,
     BitRate  |-> <<"1", "2", "8">>,
     Location |-> <<"f", "i", "l", "e", ":", "/", "/", "l", "o", "c", "a", "l", "h", "o", "s", "t", "/", "m", "/", "x", ".", "m", "p", "3">>]

\* the descriptors offered to the loader when the views are examined
ViewCollections ==
    {<<TrackNative, TrackSymbols>>, <<TrackExtension, TrackAnonymous>>,
     <<TrackNative, TrackTwin>>, <<TrackPositional, TrackAnonymous>>}

ViewReads == {[kind |-> "xml", collection |-> c] : c \in ViewCollections}

UploadC == [name |-> <<"x", "-", "a", ".", "m", "p", "3">>, webkitRelativePath |-> <<>>]

\* six files that each share one token with TrackNative
UploadX(n) ==
    [name |-> <<"x", "-", FromCharCode(48 + n), ".", "w", "a", "v">>, webkitRelativePath |-> <<>>]

\* the FileList values offered when the views are examined
ViewFileLists ==
    {<<UploadC, UploadB, UploadA>>,
     <<UploadX(6), UploadX(5), UploadX(4), UploadX(3), UploadX(2), UploadX(1), UploadA>>}

\* the values offered to the search and filter fields
StatusFilterInputs == {"unmatched", "ignored"}

BitRateFilterInputs == {"all", "high"}

TrackSearchInputs == {<<>>, <<"x">>}

HiResSearchInputs == {<<>>, <<"a", ".">>}

ExtensionFilterInputs == {AllTypes, <<".", "f", "l", "a", "c">>}

\* a TRACK element without a Location attribute
TrackUnlocated ==
    [TrackID  |-> <<"5">>,
     Name     |-> <<"u">>,
     Artist   |-> <<"x">>,
     Album    |-> <<>>,
     BitRate  |-> <<>>,
     Location |-> <<>>]

\* a TRACK element whose Location holds a percent sign that starts no escape
TrackBroken ==
    [TrackID  |-> <<"6">>,
     Name     |-> <<"k">>,
     Artist   |-> <<"x">>,
     Album    |-> <<>>,
     BitRate  |-> <<>>,
     Location |-> <<"f", "i", "l", "e", ":", "/", "/", "l", "o", "c", "a", "l", "h", "o", "s", "t",
                    "/", "k", "/", "5", "%", ".", "m", "p", "3">>]

\* a TRACK element whose file lies in the root folder
TrackRooted ==
    [TrackID  |-> <<"4">>,
     Name     |-> <<"r">>,
     Artist   |-> <<"x">>,
     Album    |-> <<>>,
     BitRate  |-> <<>>,
     Location |-> <<"f", "i", "l", "e", ":", "/", "/", "l", "o", "c", "a", "l", "h", "o", "s", "t",
                    "/", "r", ".", "m", "p", "3">>]

\* the descriptors offered to the loader when the load is examined
LoadCollections ==
    {<<TrackNative, TrackAnonymous>>, <<TrackUnlocated, TrackNative>>,
     <<TrackNative, TrackBroken>>, <<TrackRooted>>, <<>>}

LoadReads ==
    {[kind |-> "rejected"], [kind |-> "malformed"]}
    \cup {[kind |-> "xml", collection |-> c] : c \in LoadCollections}

\* the FileList values offered when the candidate set is replaced
FolderLists == {<<UploadB, UploadA>>, <<UploadC>>}

\* the base paths typed when the prefix of the encoded location is examined:
\* those of PathBases, an empty and a blank one, a relative folder and a
\* bare drive letter
CodecBases ==
    PathBases \cup {<<>>, <<" ">>, <<"n">>, <<"C", ":">>}

(***************************************************************************)
(* State                                                                   *)
(*                                                                         *)
(* rekordboxXmlText is assigned by the load and read nowhere; it is not    *)
(* part of the state.                                                      *)
(***************************************************************************)
VARIABLES
    rekordboxDoc,       \* <<>> (null) or <<collection>>: the retained parsed document
    tracks,             \* sequence of ParsedTrack
    xmlError,           \* error message, "" when none
    loadingXml,         \* a descriptor load is in flight
    activeTrackId,      \* <<>> (null) or a track id
    ignoredTrackIds,    \* set of track ids
    mappingByTrack,     \* function from track ids to Mapping
    hiResFiles,         \* sequence of HiResFile
    pickingHiRes,       \* a directory pick is in flight
    selectedHiResPath,  \* <<>> (null) or a relativePath
    basePath,           \* the base path text
    returned,           \* the handler that ran last, when it left at one of its
                        \* return statements ahead of its work, "" otherwise
    alertText,          \* the alert the last handler raised, "" when none
    download,           \* <<>> or <<collection>>: the file the last handler offered for download
    statusFilter,       \* "all", "unmatched", "matched" or "ignored"
    bitRateFilter,      \* "all", "low", "mid", "high" or "lossyHigh"
    trackSearch,        \* the text of the track search field
    hiResSearch,        \* the text of the candidate search field
    extensionFilter     \* "all" or a file extension, as text

vars ==
    <<rekordboxDoc, tracks, xmlError, loadingXml, activeTrackId,
      ignoredTrackIds, mappingByTrack, hiResFiles, pickingHiRes, selectedHiResPath,
      basePath, returned, alertText, download,
      statusFilter, bitRateFilter, trackSearch, hiResSearch, extensionFilter>>

\* the search and filter fields
filters == <<statusFilter, bitRateFilter, trackSearch, hiResSearch, extensionFilter>>

\* null of activeTrackId and selectedHiResPath; ids and paths are never empty
Null == <<>>

(***************************************************************************)
(* Derived views                                                           *)
(***************************************************************************)
getStatusIn(mapping, ignored, trackId) ==
    IF trackId \in DOMAIN mapping THEN "matched"
    ELSE IF trackId \in ignored THEN "ignored"
    ELSE "unmatched"

getStatus(trackId) == getStatusIn(mappingByTrack, ignoredTrackIds, trackId)

\* tracks.find(item => item.id === id): <<>> or <<track>>
activeTrackIn(trks, id) ==
    IF \E i \in 1..Len(trks) : trks[i].id = id
    THEN <<trks[CHOOSE i \in 1..Len(trks) : trks[i].id = id /\ \A j \in 1..(i - 1) : trks[j].id # id]>>
    ELSE <<>>

activeTrack == activeTrackIn(tracks, activeTrackId)

scoredHiResIn(trks, id, files) ==
    LET active == activeTrackIn(trks, id)
    IN  [i \in 1..Len(files) |->
            [file  |-> files[i],
             score |-> IF active # <<>> THEN scoreMatch(active[1], files[i]) ELSE 0]]

\* file.name.toLowerCase().endsWith(extFilter)
endsWith(s, p) == Len(s) >= Len(p) /\ SubSeq(s, Len(s) - Len(p) + 1, Len(s)) = p

passesHiResFilter(file) ==
    /\ ~(extensionFilter # AllTypes /\ ~endsWith(toLowerCase(file.name), extensionFilter))
    /\ \/ trim(toLowerCase(hiResSearch)) = <<>>
       \/ includes(toLowerCase(file.name \o <<" ">> \o file.relativePath), trim(toLowerCase(hiResSearch)))

filteredHiResIn(trks, id, files) ==
    sort(SelectSeq(scoredHiResIn(trks, id, files), LAMBDA item : passesHiResFilter(item.file)),
         "score")

suggestionsIn(trks, id, files) ==
    LET positive == SelectSeq(filteredHiResIn(trks, id, files), LAMBDA item : item.score > 0)
    IN  SubSeq(positive, 1, Min(Len(positive), 5))

\* matchBitRateFilter for a given value of bitRateFilter
matchBitRate(track, filter) ==
    IF filter = "all" THEN TRUE
    ELSE IF track.bitRate = 0 THEN FALSE
    ELSE IF filter = "low" THEN track.bitRate <= 160
    ELSE IF filter = "mid" THEN track.bitRate > 160 /\ track.bitRate <= 256
    ELSE IF filter = "lossyHigh" THEN track.bitRate > 256 /\ track.bitRate < 320
    ELSE IF filter = "high" THEN track.bitRate >= 320
    ELSE TRUE

matchBitRateFilter(track) == matchBitRate(track, bitRateFilter)

\* filteredTracks for given values of the three track filters
filteredTracksWith(trks, mapping, ignored, status, bitRate, search) ==
    SelectSeq(trks, LAMBDA t :
        /\ ~(status # "all" /\ getStatusIn(mapping, ignored, t.id) # status)
        /\ matchBitRate(t, bitRate)
        /\ \/ trim(toLowerCase(search)) = <<>>
           \/ includes(toLowerCase(t.title \o <<" ">> \o t.artist \o <<" ">> \o t.album
                                   \o <<" ">> \o t.location),
                       trim(toLowerCase(search))))

filteredTracksIn(trks, mapping, ignored) ==
    filteredTracksWith(trks, mapping, ignored, statusFilter, bitRateFilter, trackSearch)

\* the two watchers, run after a handler that leaves the given values: the
\* watcher of filteredTracks gives a null activeTrackId the first listed
\* track, and the watcher of [activeTrackId, hiResFiles] resets the selected
\* path to the top suggestion when either source was assigned a new value
watchedActiveTrackId(trks, id, mapping, ignored) ==
    IF id = Null /\ filteredTracksIn(trks, mapping, ignored) # <<>>
    THEN filteredTracksIn(trks, mapping, ignored)[1].id
    ELSE id

watchedSelectedHiResPath(trks, id, files, filesAssigned, selected) ==
    IF id # activeTrackId \/ filesAssigned
    THEN LET top == suggestionsIn(trks, id, files)
         IN  IF top # <<>> THEN top[1].file.relativePath ELSE Null
    ELSE selected

(***************************************************************************)
(* Initial state                                                           *)
(***************************************************************************)
Init ==
    /\ rekordboxDoc = <<>>
    /\ tracks = <<>>
    /\ xmlError = ""
    /\ loadingXml = FALSE
    /\ activeTrackId = Null
    /\ ignoredTrackIds = {}
    /\ mappingByTrack = <<>>
    /\ hiResFiles = <<>>
    /\ pickingHiRes = FALSE
    /\ selectedHiResPath = Null
    /\ basePath = <<>>
    /\ returned = ""
    /\ alertText = ""
    /\ download = <<>>
    /\ statusFilter = "unmatched"
    /\ bitRateFilter = "all"
    /\ trackSearch = <<>>
    /\ hiResSearch = <<>>
    /\ extensionFilter = AllTypes

\* a handler that runs to its end, raises no alert and offers no download
Quiet == returned' = "" /\ alertText' = "" /\ download' = <<>>

(***************************************************************************)
(* Descriptor load                                                         *)
(***************************************************************************)
RECURSIVE toDecimal(_)
toDecimal(n) ==
    IF n < 10 THEN <<FromCharCode(48 + n)>>
    ELSE toDecimal(n \div 10) \o <<FromCharCode(48 + (n % 10))>>

\* Number(text) of an attribute: the value of a digit string, NaN (0 here,
\* both are falsy) otherwise
RECURSIVE toNumber(_)
toNumber(text) ==
    IF text = <<>> THEN 0
    ELSE IF \E i \in 1..Len(text) : ~IsDigit(text[i]) THEN 0
    ELSE 10 * toNumber(SubSeq(text, 1, Len(text) - 1)) + (CharCode(text[Len(text)]) - 48)

Untitled == <<"U", "n", "t", "i", "t", "l", "e", "d">>

UnknownArtist == <<"U", "n", "k", "n", "o", "w", "n", " ", "a", "r", "t", "i", "s", "t">>

\* el.getAttribute('TrackID') || `track-${index}`, index 0-based
trackIdOf(el, index) ==
    IF el.TrackID # <<>> THEN el.TrackID
    ELSE <<"t", "r", "a", "c", "k", "-">> \o toDecimal(index)

parseTrack(el, index) ==
    [id           |-> trackIdOf(el, index),
     title        |-> IF el.Name # <<>> THEN el.Name ELSE Untitled,
     artist       |-> IF el.Artist # <<>> THEN el.Artist ELSE UnknownArtist,
     album        |-> el.Album,
     location     |-> decodeRekordboxPath(el.Location),
     bitRate      |-> toNumber(el.BitRate),
     elementIndex |-> index]

parseTracks(collection) == [i \in 1..Len(collection) |-> parseTrack(collection[i], i - 1)]

\* the base path seeded from the first track: its location up to the last slash
seededBasePath(parsed) ==
    IF parsed # <<>> /\ parsed[1].location # <<>>
    THEN LET normalized == backslashesToSlashes(parsed[1].location)
             lastSlash == lastIndexOf(normalized, "/")
         IN  IF lastSlash > 0 THEN sliceTo(normalized, lastSlash) ELSE normalized
    ELSE basePath

\* a load that empties the track list before it awaits the text
parseRekordboxFileClearingTracks ==
    /\ UNCHANGED filters
    /\ ~loadingXml
    /\ loadingXml' = TRUE
    /\ xmlError' = ""
    /\ tracks' = <<>>
    /\ Quiet
    /\ UNCHANGED <<rekordboxDoc, activeTrackId, ignoredTrackIds,
                   mappingByTrack, hiResFiles, pickingHiRes, selectedHiResPath, basePath>>

\* parseRekordboxFile up to its await of file.text()
parseRekordboxFile ==
    /\ UNCHANGED filters
    /\ ~loadingXml
    /\ loadingXml' = TRUE
    /\ xmlError' = ""
    /\ Quiet
    /\ UNCHANGED <<rekordboxDoc, tracks, activeTrackId, ignoredTrackIds,
                   mappingByTrack, hiResFiles, pickingHiRes, selectedHiResPath, basePath>>

\* the catch block: file.text() rejected
parseRekordboxFileRejected ==
    /\ xmlError' = "Failed to read file."
    /\ UNCHANGED <<rekordboxDoc, tracks, activeTrackId, ignoredTrackIds, mappingByTrack,
                   selectedHiResPath, basePath>>

\* a load that resets the session before it looks for the parsererror
parseRekordboxFileMalformedAfterReset ==
    /\ xmlError' = "Unable to parse XML. Please check the file."
    /\ ignoredTrackIds' = {}
    /\ mappingByTrack' = <<>>
    /\ UNCHANGED <<rekordboxDoc, tracks, activeTrackId, selectedHiResPath, basePath>>

\* the parsererror return
parseRekordboxFileMalformed ==
    /\ xmlError' = "Unable to parse XML. Please check the file."
    /\ UNCHANGED <<rekordboxDoc, tracks, activeTrackId, ignoredTrackIds, mappingByTrack,
                   selectedHiResPath, basePath>>

\* a load that leaves the ignore set of the previous document in place
parseRekordboxFileParsedKeepingIgnored(collection) ==
    LET parsed == parseTracks(collection)
        first == IF parsed # <<>> THEN parsed[1].id ELSE Null
        active == watchedActiveTrackId(parsed, first, <<>>, ignoredTrackIds)
    IN  /\ tracks' = parsed
        /\ rekordboxDoc' = <<collection>>
        /\ mappingByTrack' = <<>>
        /\ basePath' = seededBasePath(parsed)
        /\ activeTrackId' = active
        /\ selectedHiResPath' =
               watchedSelectedHiResPath(parsed, active, hiResFiles, FALSE, selectedHiResPath)
        /\ UNCHANGED <<xmlError, ignoredTrackIds>>

\* a load in which a location that does not decode reaches the catch block
parseRekordboxFileParsedOrThrown(collection) ==
    LET parsed == parseTracks(collection)
        first == IF parsed # <<>> THEN parsed[1].id ELSE Null
        active == watchedActiveTrackId(parsed, first, <<>>, {})
    IN  IF \E i \in 1..Len(collection) :
               decodeURI(decodeRekordboxPathRaw(collection[i].Location)) = URIError
        THEN /\ xmlError' = "Failed to read file."
             /\ UNCHANGED <<rekordboxDoc, tracks, activeTrackId, ignoredTrackIds, mappingByTrack,
                            selectedHiResPath, basePath>>
        ELSE /\ tracks' = parsed
             /\ rekordboxDoc' = <<collection>>
             /\ ignoredTrackIds' = {}
             /\ mappingByTrack' = <<>>
             /\ basePath' = seededBasePath(parsed)
             /\ activeTrackId' = active
             /\ selectedHiResPath' =
                    watchedSelectedHiResPath(parsed, active, hiResFiles, FALSE, selectedHiResPath)
             /\ UNCHANGED xmlError

\* the rest of the try block, for a well-formed descriptor
parseRekordboxFileParsed(collection) ==
    LET parsed == parseTracks(collection)
        first == IF parsed # <<>> THEN parsed[1].id ELSE Null
        active == watchedActiveTrackId(parsed, first, <<>>, {})
    IN  /\ tracks' = parsed
        /\ rekordboxDoc' = <<collection>>
        /\ ignoredTrackIds' = {}
        /\ mappingByTrack' = <<>>
        /\ basePath' = seededBasePath(parsed)
        /\ activeTrackId' = active
        /\ selectedHiResPath' =
               watchedSelectedHiResPath(parsed, active, hiResFiles, FALSE, selectedHiResPath)
        /\ UNCHANGED xmlError

\* a load that puts the flag back after the try statement, not in a finally
\* block: the parsererror return and the catch block leave it set
parseRekordboxFileResumeWithoutFinally(read) ==
    /\ UNCHANGED filters
    /\ loadingXml
    /\ loadingXml' = (read.kind # "xml")
    /\ Quiet
    /\ UNCHANGED <<hiResFiles, pickingHiRes>>
    /\ IF read.kind = "rejected" THEN parseRekordboxFileRejected
       ELSE IF read.kind = "malformed" THEN parseRekordboxFileMalformed
       ELSE parseRekordboxFileParsed(read.collection)

\* parseRekordboxFile from the await on, for each result of the read
parseRekordboxFileResume(read) ==
    /\ UNCHANGED filters
    /\ loadingXml
    /\ loadingXml' = FALSE
    /\ Quiet
    /\ UNCHANGED <<hiResFiles, pickingHiRes>>
    /\ IF read.kind = "rejected" THEN parseRekordboxFileRejected
       ELSE IF read.kind = "malformed" THEN parseRekordboxFileMalformed
       ELSE parseRekordboxFileParsed(read.collection)

(***************************************************************************)
(* Candidate files                                                         *)
(***************************************************************************)
\* the files walkDirectory pushes into the bucket, in enumeration order
RECURSIVE walkDirectory(_, _)
walkDirectory(entries, prefix) ==
    IF entries = <<>> THEN <<>>
    ELSE LET entry == Head(entries)
             path == IF prefix # <<>> THEN prefix \o <<"/">> \o entry.name ELSE entry.name
         IN  (IF entry.kind = "file"
              THEN <<[name |-> entry.name, relativePath |-> path]>>
              ELSE walkDirectory(entry.entries, path))
             \o walkDirectory(Tail(entries), prefix)

\* pickHiResDirectory up to its await of the directory picker
pickHiResDirectory ==
    /\ UNCHANGED filters
    /\ ~pickingHiRes
    /\ pickingHiRes' = TRUE
    /\ Quiet
    /\ UNCHANGED <<rekordboxDoc, tracks, xmlError, loadingXml, activeTrackId,
                   ignoredTrackIds, mappingByTrack, hiResFiles, selectedHiResPath, basePath>>

\* a pick that hands its bucket to the candidate set even when the walk
\* throws, with the files pushed so far (none here)
pickHiResDirectoryResumeInstallingBucket(outcome) ==
    /\ UNCHANGED filters
    /\ pickingHiRes
    /\ pickingHiRes' = FALSE
    /\ Quiet
    /\ UNCHANGED <<rekordboxDoc, tracks, xmlError, loadingXml, activeTrackId,
                   ignoredTrackIds, mappingByTrack, basePath>>
    /\ IF outcome.kind = "cancelled"
       THEN UNCHANGED <<hiResFiles, selectedHiResPath>>
       ELSE LET collected ==
                    IF outcome.kind = "walked"
                    THEN sort(walkDirectory(outcome.entries, <<>>), "relativePath")
                    ELSE <<>>
            IN  /\ hiResFiles' = collected
                /\ selectedHiResPath' =
                       watchedSelectedHiResPath(tracks, activeTrackId, collected, TRUE, selectedHiResPath)

\* pickHiResDirectory from the await on, for each way the pick ends
pickHiResDirectoryResume(outcome) ==
    /\ UNCHANGED filters
    /\ pickingHiRes
    /\ pickingHiRes' = FALSE
    /\ Quiet
    /\ UNCHANGED <<rekordboxDoc, tracks, xmlError, loadingXml, activeTrackId,
                   ignoredTrackIds, mappingByTrack, basePath>>
    /\ IF outcome.kind = "walked"
       THEN LET collected == sort(walkDirectory(outcome.entries, <<>>), "relativePath")
            IN  /\ hiResFiles' = collected
                /\ selectedHiResPath' =
                       watchedSelectedHiResPath(tracks, activeTrackId, collected, TRUE, selectedHiResPath)
       ELSE UNCHANGED <<hiResFiles, selectedHiResPath>>

onHiResFilesSelected(files) ==
    /\ UNCHANGED filters
    /\ alertText' = ""
    /\ download' = <<>>
    /\ UNCHANGED <<rekordboxDoc, tracks, xmlError, loadingXml, activeTrackId,
                   ignoredTrackIds, mappingByTrack, pickingHiRes, basePath>>
    /\ IF files = <<>>
       THEN /\ returned' = "onHiResFilesSelected"
            /\ UNCHANGED <<hiResFiles, selectedHiResPath>>
       ELSE LET collected ==
                    sort([i \in 1..Len(files) |->
                             [name |-> files[i].name,
                              relativePath |->
                                  removeLeadingSlash(IF files[i].webkitRelativePath # <<>>
                                                     THEN files[i].webkitRelativePath
                                                     ELSE files[i].name)]],
                         "relativePath")
            IN  /\ returned' = ""
                /\ hiResFiles' = collected
                /\ selectedHiResPath' =
                       watchedSelectedHiResPath(tracks, activeTrackId, collected, TRUE, selectedHiResPath)

(***************************************************************************)
(* Selection, base path                                                    *)
(***************************************************************************)
selectTrack(trackId) ==
    /\ UNCHANGED filters
    /\ activeTrackId' = trackId
    /\ selectedHiResPath' =
           watchedSelectedHiResPath(tracks, trackId, hiResFiles, FALSE, selectedHiResPath)
    /\ Quiet
    /\ UNCHANGED <<rekordboxDoc, tracks, xmlError, loadingXml, ignoredTrackIds,
                   mappingByTrack, hiResFiles, pickingHiRes, basePath>>

selectHiRes(path) ==
    /\ UNCHANGED filters
    /\ selectedHiResPath' = path
    /\ Quiet
    /\ UNCHANGED <<rekordboxDoc, tracks, xmlError, loadingXml, activeTrackId,
                   ignoredTrackIds, mappingByTrack, hiResFiles, pickingHiRes, basePath>>

\* rekordboxDoc.value && tracks.value.length > 0
hasXml == rekordboxDoc # <<>> /\ tracks # <<>>

\* the v-model of the base path field, which is disabled without hasXml
setBasePath(text) ==
    /\ UNCHANGED filters
    /\ hasXml
    /\ basePath' = text
    /\ Quiet
    /\ UNCHANGED <<rekordboxDoc, tracks, xmlError, loadingXml, activeTrackId,
                   ignoredTrackIds, mappingByTrack, hiResFiles, pickingHiRes, selectedHiResPath>>

(***************************************************************************)
(* Search and filter fields                                                *)
(***************************************************************************)
\* the v-model of one of the three track filters, and the watcher of
\* filteredTracks, which runs once the list is computed anew
setTrackFilters(status, bitRate, search) ==
    LET list == filteredTracksWith(tracks, mappingByTrack, ignoredTrackIds, status, bitRate, search)
        active == IF activeTrackId = Null /\ list # <<>> THEN list[1].id ELSE activeTrackId
    IN  /\ statusFilter' = status
        /\ bitRateFilter' = bitRate
        /\ trackSearch' = search
        /\ activeTrackId' = active
        /\ selectedHiResPath' =
               watchedSelectedHiResPath(tracks, active, hiResFiles, FALSE, selectedHiResPath)
        /\ Quiet
        /\ UNCHANGED <<rekordboxDoc, tracks, xmlError, loadingXml, ignoredTrackIds, mappingByTrack,
                       hiResFiles, pickingHiRes, basePath, hiResSearch, extensionFilter>>

setStatusFilter(value) == setTrackFilters(value, bitRateFilter, trackSearch)

setBitRateFilter(value) == setTrackFilters(statusFilter, value, trackSearch)

setTrackSearch(text) == setTrackFilters(statusFilter, bitRateFilter, text)

\* the v-model of the candidate search field: no watcher reads filteredHiRes
setHiResSearch(text) ==
    /\ hiResSearch' = text
    /\ Quiet
    /\ UNCHANGED <<rekordboxDoc, tracks, xmlError, loadingXml, activeTrackId, ignoredTrackIds,
                   mappingByTrack, hiResFiles, pickingHiRes, selectedHiResPath, basePath,
                   statusFilter, bitRateFilter, trackSearch, extensionFilter>>

\* an extension filter that drops the hidden files from the candidate set
setExtensionFilterInPlace(value) ==
    /\ extensionFilter' = value
    /\ hiResFiles' = SelectSeq(hiResFiles, LAMBDA file :
                         value = AllTypes \/ endsWith(toLowerCase(file.name), value))
    /\ selectedHiResPath' =
           watchedSelectedHiResPath(tracks, activeTrackId, hiResFiles', TRUE, selectedHiResPath)
    /\ Quiet
    /\ UNCHANGED <<rekordboxDoc, tracks, xmlError, loadingXml, activeTrackId, ignoredTrackIds,
                   mappingByTrack, pickingHiRes, basePath,
                   statusFilter, bitRateFilter, trackSearch, hiResSearch>>

\* the v-model of the extension filter
setExtensionFilter(value) ==
    /\ extensionFilter' = value
    /\ Quiet
    /\ UNCHANGED <<rekordboxDoc, tracks, xmlError, loadingXml, activeTrackId, ignoredTrackIds,
                   mappingByTrack, hiResFiles, pickingHiRes, selectedHiResPath, basePath,
                   statusFilter, bitRateFilter, trackSearch, hiResSearch>>

(***************************************************************************)
(* MappingState                                                            *)
(***************************************************************************)
\* a scan that stops at the end of the list
moveToNextUnmatchedNoWrap(currentId, mapping, ignored) ==
    LET currentIndex ==
            IF \E i \in 1..Len(tracks) : tracks[i].id = currentId
            THEN CHOOSE i \in 1..Len(tracks) :
                     tracks[i].id = currentId /\ \A j \in 1..(i - 1) : tracks[j].id # currentId
            ELSE 0
        order == SubSeq(tracks, currentIndex + 1, Len(tracks))
        unmatched == SelectSeq(order, LAMBDA t : getStatusIn(mapping, ignored, t.id) = "unmatched")
    IN  IF unmatched # <<>> THEN unmatched[1].id ELSE activeTrackId

\* the activeTrackId moveToNextUnmatched leaves, given the table and the set
\* that confirmMapping has just written
moveToNextUnmatched(currentId, mapping, ignored) ==
    LET currentIndex ==
            IF \E i \in 1..Len(tracks) : tracks[i].id = currentId
            THEN CHOOSE i \in 1..Len(tracks) :
                     tracks[i].id = currentId /\ \A j \in 1..(i - 1) : tracks[j].id # currentId
            ELSE 0
        order == SubSeq(tracks, currentIndex + 1, Len(tracks)) \o SubSeq(tracks, 1, currentIndex - 1)
        unmatched == SelectSeq(order, LAMBDA t : getStatusIn(mapping, ignored, t.id) = "unmatched")
    IN  IF unmatched # <<>> THEN unmatched[1].id ELSE activeTrackId

\* no file argument
NoFile == <<>>

\* file || hiResFiles.find(item => item.relativePath === selectedHiResPath): <<>> or <<candidate>>
candidateFor(file) ==
    IF file # NoFile THEN file
    ELSE LET found == SelectSeq(hiResFiles, LAMBDA item : item.relativePath = selectedHiResPath)
         IN  IF found # <<>> THEN <<found[1]>> ELSE <<>>

\* a return that has already taken the active track out of the ignore set
confirmMappingReturnAfterUnignore ==
    /\ returned' = "confirmMapping"
    /\ ignoredTrackIds' = ignoredTrackIds \ {activeTrackId}
    /\ UNCHANGED <<mappingByTrack, activeTrackId, selectedHiResPath>>

\* the two return statements ahead of the assignments
confirmMappingReturn ==
    /\ returned' = "confirmMapping"
    /\ UNCHANGED <<mappingByTrack, ignoredTrackIds, activeTrackId, selectedHiResPath>>

\* a table rebuilt without the spread of the previous one
mappingWithOnly(track, candidate) ==
    [id \in {track.id} |->
        [trackId      |-> track.id,
         relativePath |-> candidate.relativePath,
         resolvedPath |-> buildRekordboxPath(basePath, candidate.relativePath)]]

\* { ...mappingByTrack.value, [track.id]: { trackId, relativePath, resolvedPath } }
mappingWith(track, candidate) ==
    [id \in DOMAIN mappingByTrack \cup {track.id} |->
        IF id = track.id
        THEN [trackId      |-> track.id,
              relativePath |-> candidate.relativePath,
              resolvedPath |-> buildRekordboxPath(basePath, candidate.relativePath)]
        ELSE mappingByTrack[id]]

\* an ignore set left as it was
ignoredWith(trackId) == ignoredTrackIds

\* new Set(Array.from(ignoredTrackIds.value).filter(id => id !== track.id))
ignoredWithout(trackId) == ignoredTrackIds \ {trackId}

confirmMapping(file) ==
    /\ UNCHANGED filters
    /\ alertText' = ""
    /\ download' = <<>>
    /\ UNCHANGED <<rekordboxDoc, tracks, xmlError, loadingXml, hiResFiles,
                   pickingHiRes, basePath>>
    /\ IF activeTrack = <<>> \/ candidateFor(file) = <<>>
       THEN confirmMappingReturn
       ELSE LET track == activeTrack[1]
                candidate == candidateFor(file)[1]
                mapping == mappingWith(track, candidate)
                ignored == ignoredWithout(track.id)
                next == moveToNextUnmatched(track.id, mapping, ignored)
            IN  /\ returned' = ""
                /\ mappingByTrack' = mapping
                /\ ignoredTrackIds' = ignored
                /\ activeTrackId' = next
                /\ selectedHiResPath' =
                       watchedSelectedHiResPath(tracks, next, hiResFiles, FALSE, selectedHiResPath)

\* a toggle that leaves the mapping of the track it ignores
toggleIgnoreKeepingMapping(trackId) ==
    /\ UNCHANGED filters
    /\ Quiet
    /\ IF trackId \in ignoredTrackIds
       THEN ignoredTrackIds' = ignoredTrackIds \ {trackId}
       ELSE ignoredTrackIds' = ignoredTrackIds \cup {trackId}
    /\ UNCHANGED <<rekordboxDoc, tracks, xmlError, loadingXml, activeTrackId, mappingByTrack,
                   hiResFiles, pickingHiRes, selectedHiResPath, basePath>>

\* a toggle that never takes a track out of the set
toggledIgnoredAdding(ignored, trackId) == ignored \cup {trackId}

\* next of toggleIgnore: the copy of the set, with the track deleted or added
toggledIgnored(ignored, trackId) ==
    IF trackId \in ignored THEN ignored \ {trackId} ELSE ignored \cup {trackId}

\* the mapping table toggleIgnore leaves: the entry of the track is deleted
\* in the branch that adds the track to the set
toggledMapping(mapping, ignored, trackId) ==
    IF trackId \in ignored THEN mapping
    ELSE [id \in DOMAIN mapping \ {trackId} |-> mapping[id]]

toggleIgnore(trackId) ==
    /\ UNCHANGED filters
    /\ Quiet
    /\ ignoredTrackIds' = toggledIgnored(ignoredTrackIds, trackId)
    /\ mappingByTrack' = toggledMapping(mappingByTrack, ignoredTrackIds, trackId)
    /\ UNCHANGED <<rekordboxDoc, tracks, xmlError, loadingXml, activeTrackId,
                   hiResFiles, pickingHiRes, selectedHiResPath, basePath>>

\* a clear that forgets the ignore set
clearMappingsKeepingIgnored ==
    /\ UNCHANGED filters
    /\ mappingByTrack' = <<>>
    /\ Quiet
    /\ UNCHANGED <<rekordboxDoc, tracks, xmlError, loadingXml, activeTrackId, ignoredTrackIds,
                   hiResFiles, pickingHiRes, selectedHiResPath, basePath>>

clearMappings ==
    /\ UNCHANGED filters
    /\ mappingByTrack' = <<>>
    /\ ignoredTrackIds' = {}
    /\ Quiet
    /\ UNCHANGED <<rekordboxDoc, tracks, xmlError, loadingXml, activeTrackId,
                   hiResFiles, pickingHiRes, selectedHiResPath, basePath>>

(***************************************************************************)
(* Export                                                                  *)
(***************************************************************************)
\* a rewrite that copies the location stored with the mapping
exportedCollectionStored(collection, mapping, base) ==
    [i \in 1..Len(collection) |->
        IF trackIdOf(collection[i], i - 1) \in DOMAIN mapping
        THEN [collection[i] EXCEPT
                 !.Location = mapping[trackIdOf(collection[i], i - 1)].resolvedPath]
        ELSE collection[i]]

\* a rewrite that names every element by its position
exportedCollectionByPosition(collection, mapping, base) ==
    [i \in 1..Len(collection) |->
        IF <<"t", "r", "a", "c", "k", "-">> \o toDecimal(i - 1) \in DOMAIN mapping
        THEN [collection[i] EXCEPT
                 !.Location =
                     buildRekordboxPath(base,
                         mapping[<<"t", "r", "a", "c", "k", "-">> \o toDecimal(i - 1)].relativePath)]
        ELSE collection[i]]

\* the TRACK elements of the clone after the forEach of exportUpdatedXml
exportedCollection(collection, mapping, base) ==
    [i \in 1..Len(collection) |->
        IF trackIdOf(collection[i], i - 1) \in DOMAIN mapping
        THEN [collection[i] EXCEPT
                 !.Location = buildRekordboxPath(base, mapping[trackIdOf(collection[i], i - 1)].relativePath)]
        ELSE collection[i]]

\* an export that rewrites the retained document itself
exportUpdatedXmlInPlace ==
    /\ UNCHANGED filters
    /\ UNCHANGED <<tracks, xmlError, loadingXml, activeTrackId, ignoredTrackIds, mappingByTrack,
                   hiResFiles, pickingHiRes, selectedHiResPath, basePath>>
    /\ IF rekordboxDoc = <<>>
       THEN /\ returned' = "exportUpdatedXml"
            /\ alertText' = ""
            /\ download' = <<>>
            /\ UNCHANGED rekordboxDoc
       ELSE IF trim(basePath) = <<>>
       THEN /\ returned' = "exportUpdatedXml"
            /\ alertText' = "Please provide a base Rekordbox path to build new file locations."
            /\ download' = <<>>
            /\ UNCHANGED rekordboxDoc
       ELSE /\ returned' = ""
            /\ alertText' = ""
            /\ rekordboxDoc' = <<exportedCollection(rekordboxDoc[1], mappingByTrack, basePath)>>
            /\ download' = rekordboxDoc'

exportUpdatedXml ==
    /\ UNCHANGED filters
    /\ UNCHANGED <<rekordboxDoc, tracks, xmlError, loadingXml, activeTrackId,
                   ignoredTrackIds, mappingByTrack, hiResFiles, pickingHiRes, selectedHiResPath,
                   basePath>>
    /\ IF rekordboxDoc = <<>>
       THEN /\ returned' = "exportUpdatedXml"
            /\ alertText' = ""
            /\ download' = <<>>
       ELSE IF trim(basePath) = <<>>
       THEN /\ returned' = "exportUpdatedXml"
            /\ alertText' = "Please provide a base Rekordbox path to build new file locations."
            /\ download' = <<>>
       ELSE /\ returned' = ""
            /\ alertText' = ""
            /\ download' = <<exportedCollection(rekordboxDoc[1], mappingByTrack, basePath)>>

(***************************************************************************)
(* Specification                                                           *)
(***************************************************************************)
Next ==
    \/ parseRekordboxFile
    \/ \E read \in XmlReads : parseRekordboxFileResume(read)
    \/ pickHiResDirectory
    \/ \E outcome \in PickOutcomes : pickHiResDirectoryResume(outcome)
    \/ \E files \in FileLists : onHiResFilesSelected(files)
    \/ \E i \in 1..Len(tracks) : selectTrack(tracks[i].id)
    \/ \E i \in 1..Len(hiResFiles) : selectHiRes(hiResFiles[i].relativePath)
    \/ \E text \in BasePathInputs : setBasePath(text)
    \/ \E file \in {NoFile} \cup {<<hiResFiles[i]>> : i \in 1..Len(hiResFiles)} : confirmMapping(file)
    \/ \E i \in 1..Len(tracks) : toggleIgnore(tracks[i].id)
    \/ clearMappings
    \/ exportUpdatedXml

Spec == Init /\ [][Next]_vars

\* The session in which the views are examined: descriptors with entries of
\* every kind are loaded, candidate sets are chosen, tracks and candidates
\* are selected, and the candidate search and the extension filter are used.
NextViews ==
    \/ parseRekordboxFile
    \/ \E read \in ViewReads : parseRekordboxFileResume(read)
    \/ \E files \in ViewFileLists : onHiResFilesSelected(files)
    \/ \E i \in 1..Len(tracks) : selectTrack(tracks[i].id)
    \/ \E i \in 1..Len(hiResFiles) : selectHiRes(hiResFiles[i].relativePath)
    \/ \E text \in HiResSearchInputs : setHiResSearch(text)
    \/ \E value \in ExtensionFilterInputs : setExtensionFilter(value)

SpecViews == Init /\ [][NextViews]_vars

\* The session in which the search and filter fields are examined: one
\* descriptor is loaded, the candidate set is chosen, tracks are selected,
\* confirmed and ignored, and all five fields are used.
NextFilters ==
    \/ parseRekordboxFile
    \/ \E read \in PathReads : parseRekordboxFileResume(read)
    \/ \E files \in FileLists : onHiResFilesSelected(files)
    \/ \E i \in 1..Len(tracks) : selectTrack(tracks[i].id)
    \/ \E i \in 1..Len(tracks) : toggleIgnore(tracks[i].id)
    \/ confirmMapping(NoFile)
    \/ \E value \in StatusFilterInputs : setStatusFilter(value)
    \/ \E value \in BitRateFilterInputs : setBitRateFilter(value)
    \/ \E text \in TrackSearchInputs : setTrackSearch(text)
    \/ \E text \in HiResSearchInputs : setHiResSearch(text)
    \/ \E value \in ExtensionFilterInputs : setExtensionFilter(value)

SpecFilters == Init /\ [][NextFilters]_vars

\* The session in which the path codec is examined: one descriptor is
\* loaded, the candidate set is chosen, base paths of every style are typed
\* before the first confirm, and tracks are confirmed.
NextPaths ==
    \/ parseRekordboxFile
    \/ \E read \in PathReads : parseRekordboxFileResume(read)
    \/ \E files \in FileLists : onHiResFilesSelected(files)
    \/ \E text \in PathBases : mappingByTrack = <<>> /\ setBasePath(text)
    \/ \E i \in 1..Len(tracks) : selectTrack(tracks[i].id)
    \/ \E i \in 1..Len(hiResFiles) : confirmMapping(<<hiResFiles[i]>>)

SpecPaths == Init /\ [][NextPaths]_vars

\* The session in which the candidate set is replaced: one descriptor is
\* loaded, base paths of every style, an empty one among them, are typed
\* before the first confirm, tracks are confirmed, and a second folder is
\* chosen after the first.
NextFolders ==
    \/ parseRekordboxFile
    \/ \E read \in PathReads : parseRekordboxFileResume(read)
    \/ \E files \in FolderLists : onHiResFilesSelected(files)
    \/ \E text \in CodecBases : mappingByTrack = <<>> /\ setBasePath(text)
    \/ \E i \in 1..Len(tracks) : selectTrack(tracks[i].id)
    \/ \E i \in 1..Len(hiResFiles) : confirmMapping(<<hiResFiles[i]>>)

SpecFolders == Init /\ [][NextFolders]_vars

\* The session in which the load and the folder pick are examined:
\* descriptors whose first track has no location, a location that does not
\* decode or a file in the root folder are loaded, reads fail, folders are
\* picked and picks fail, and tracks are selected.
NextLoads ==
    \/ parseRekordboxFile
    \/ \E read \in LoadReads : parseRekordboxFileResume(read)
    \/ pickHiResDirectory
    \/ \E outcome \in PickOutcomes : pickHiResDirectoryResume(outcome)
    \/ \E files \in FolderLists : onHiResFilesSelected(files)
    \/ \E i \in 1..Len(tracks) : selectTrack(tracks[i].id)

SpecLoads == Init /\ [][NextLoads]_vars

\* the same session when every settled promise is followed by its
\* continuation: file.text() and the directory pick settle, and the event
\* loop runs the rest of the handler
SpecLoadsFair ==
    /\ Init /\ [][NextLoads]_vars
    /\ WF_vars(\E read \in LoadReads : parseRekordboxFileResume(read))
    /\ WF_vars(\E outcome \in PickOutcomes : pickHiResDirectoryResume(outcome))

(***************************************************************************)
(* Properties                                                              *)
(***************************************************************************)
\* C1: in every reachable state no track id is both a key of the mapping
\* table and a member of the ignore set.
MappedAndIgnoredDisjoint == DOMAIN mappingByTrack \cap ignoredTrackIds = {}

\* one track is matched while another is ignored
SomeMappedSomeIgnored == mappingByTrack # <<>> /\ ignoredTrackIds # {}

\* C2 as stated: an export with fewer mappings than entries differs from the
\* loaded document in exactly as many Location attributes as there are
\* mappings, each on a mapped entry, and in nothing else.
ExportChangesOneLocationPerMapping ==
    (download # <<>> /\ Cardinality(DOMAIN mappingByTrack) < Len(rekordboxDoc[1])) =>
        LET loaded == rekordboxDoc[1]
            output == download[1]
            differing == {i \in 1..Len(loaded) : output[i].Location # loaded[i].Location}
        IN  /\ Len(output) = Len(loaded)
            /\ Cardinality(differing) = Cardinality(DOMAIN mappingByTrack)
            /\ \A i \in differing : trackIdOf(loaded[i], i - 1) \in DOMAIN mappingByTrack
            /\ \A i \in 1..Len(loaded) : output[i] = [loaded[i] EXCEPT !.Location = output[i].Location]

\* C2: an export gives every entry whose id is a key of the mapping table the
\* location encoded from the current base path and the mapping's relative
\* path, which may be the location the entry already had, and leaves every
\* other entry and every other attribute as loaded; the entries that differ
\* from the loaded document are therefore all mapped ones, and may be fewer
\* than the mappings.
ExportRewritesMappedEntriesOnly ==
    download # <<>> =>
        LET loaded == rekordboxDoc[1]
            output == download[1]
        IN  /\ Len(output) = Len(loaded)
            /\ \A i \in 1..Len(loaded) :
                   LET id == trackIdOf(loaded[i], i - 1)
                   IN  /\ output[i] = [loaded[i] EXCEPT !.Location = output[i].Location]
                       /\ id \in DOMAIN mappingByTrack =>
                              output[i].Location =
                                  buildRekordboxPath(basePath, mappingByTrack[id].relativePath)
                       /\ id \notin DOMAIN mappingByTrack =>
                              output[i].Location = loaded[i].Location

\* an export of a document with a mapped and an unmapped entry whose output
\* equals the loaded document: the one mapping encodes to the loaded location
ExportOfMappingToLoadedLocation ==
    /\ download # <<>>
    /\ mappingByTrack # <<>>
    /\ Cardinality(DOMAIN mappingByTrack) < Len(rekordboxDoc[1])
    /\ download[1] = rekordboxDoc[1]

\* C3: a load of malformed XML ends with an error message shown, and neither
\* its start nor its end changes the track list, the retained document, the
\* mapping table, the ignore set, the base path or the active track.
MalformedLoadLeavesSession ==
    [][/\ parseRekordboxFileResume([kind |-> "malformed"]) => (xmlError' # "" /\ ~loadingXml')
       /\ (parseRekordboxFile \/ parseRekordboxFileResume([kind |-> "malformed"])) =>
              UNCHANGED <<tracks, rekordboxDoc, mappingByTrack, ignoredTrackIds, basePath,
                          activeTrackId>>]_vars

\* the parse error is shown while the earlier document keeps a mapping and an ignore
ParseErrorOverWorkedSession ==
    /\ xmlError = "Unable to parse XML. Please check the file."
    /\ ~loadingXml
    /\ mappingByTrack # <<>>
    /\ ignoredTrackIds # {}

\* C4: right after a successful load the mapping table and the ignore set are
\* empty and every track of the new document is unmatched.
SuccessfulLoadResetsSession ==
    [][\A read \in XmlReads :
           (read.kind = "xml" /\ parseRekordboxFileResume(read)) =>
               /\ mappingByTrack' = <<>>
               /\ ignoredTrackIds' = {}
               /\ \A i \in 1..Len(tracks') :
                      getStatusIn(mappingByTrack', ignoredTrackIds', tracks'[i].id) = "unmatched"]_vars

\* a loaded document of two tracks, all unmatched, with candidates at hand
FreshDocumentAllUnmatched ==
    /\ Len(tracks) >= 2
    /\ ~loadingXml
    /\ xmlError = ""
    /\ hiResFiles # <<>>
    /\ \A i \in 1..Len(tracks) : getStatus(tracks[i].id) = "unmatched"

\* C5 as stated: an export with no parsed document or a blank base path
\* raises a failure message, offers no file and changes nothing of the session.
BlockedExportReports ==
    [][(exportUpdatedXml /\ (rekordboxDoc = <<>> \/ trim(basePath) = <<>>)) =>
           /\ alertText' # ""
           /\ download' = <<>>
           /\ UNCHANGED <<rekordboxDoc, tracks, xmlError, loadingXml, activeTrackId,
                          ignoredTrackIds, mappingByTrack, hiResFiles, pickingHiRes,
                          selectedHiResPath, basePath>>]_vars

\* C6: an export changes neither the retained document, the track list, the
\* mapping table nor the ignore set; the retained document changes only when
\* a load succeeds; an export right after an export offers the same file.
ExportLeavesSession ==
    [][/\ exportUpdatedXml =>
              UNCHANGED <<rekordboxDoc, tracks, mappingByTrack, ignoredTrackIds>>
       /\ rekordboxDoc' # rekordboxDoc =>
              \E read \in XmlReads : read.kind = "xml" /\ parseRekordboxFileResume(read)
       /\ (exportUpdatedXml /\ download # <<>>) => download' = download]_vars

\* an export whose output differs from the retained document
ExportedFileDiffersFromRetained ==
    /\ download # <<>>
    /\ download[1] # rekordboxDoc[1]

\* C7: a confirm on the active track T with candidate F leaves T one mapping
\* with F's relative path and the location encoded from the current base
\* path, whatever T was mapped to before, takes T out of the ignore set and
\* leaves the mapping and the ignore membership of every other track.
ConfirmWritesOneMapping ==
    [][\A file \in {NoFile} \cup {<<hiResFiles[i]>> : i \in 1..Len(hiResFiles)} :
           (confirmMapping(file) /\ activeTrack # <<>> /\ candidateFor(file) # <<>>) =>
               LET T == activeTrack[1].id
                   F == candidateFor(file)[1]
               IN  /\ T \in DOMAIN mappingByTrack'
                   /\ mappingByTrack'[T] =
                          [trackId      |-> T,
                           relativePath |-> F.relativePath,
                           resolvedPath |-> buildRekordboxPath(basePath, F.relativePath)]
                   /\ T \notin ignoredTrackIds'
                   /\ DOMAIN mappingByTrack' \ {T} = DOMAIN mappingByTrack \ {T}
                   /\ \A id \in DOMAIN mappingByTrack \ {T} : mappingByTrack'[id] = mappingByTrack[id]
                   /\ ignoredTrackIds' \ {T} = ignoredTrackIds \ {T}]_vars

\* two tracks are matched, each to a candidate of its own
TwoTracksMatched ==
    /\ Cardinality(DOMAIN mappingByTrack) >= 2
    /\ \E a, b \in DOMAIN mappingByTrack :
           mappingByTrack[a].relativePath # mappingByTrack[b].relativePath

\* C8: a confirm with no active track, or with no file passed and a selected
\* path that names no candidate, returns with the mapping table, the ignore
\* set and the active track as they were; any other confirm writes a mapping
\* with its track id, relative path and resolved location in the same step.
ConfirmAllOrNothing ==
    [][\A file \in {NoFile} \cup {<<hiResFiles[i]>> : i \in 1..Len(hiResFiles)} :
           confirmMapping(file) =>
               IF activeTrack = <<>>
                  \/ (file = NoFile
                      /\ \A i \in 1..Len(hiResFiles) : hiResFiles[i].relativePath # selectedHiResPath)
               THEN UNCHANGED <<mappingByTrack, ignoredTrackIds, activeTrackId>>
               ELSE /\ activeTrackId \in DOMAIN mappingByTrack'
                    /\ mappingByTrack'[activeTrackId].trackId = activeTrackId
                    /\ \E i \in 1..Len(hiResFiles) :
                           mappingByTrack'[activeTrackId].relativePath = hiResFiles[i].relativePath
                    /\ mappingByTrack'[activeTrackId].resolvedPath # <<>>]_vars

\* a confirm returned at once although a track is active, candidates are
\* listed and an ignore is recorded
ConfirmReturnedWithoutCandidate ==
    /\ returned = "confirmMapping"
    /\ activeTrack # <<>>
    /\ hiResFiles # <<>>
    /\ ignoredTrackIds # {}

\* C9: every track has one of the three statuses, and ignoring a track that a
\* confirm has matched leaves it ignored with no entry in the mapping table.
IgnoreAfterConfirmDropsMapping ==
    [][/\ \A i \in 1..Len(tracks') :
              getStatusIn(mappingByTrack', ignoredTrackIds', tracks'[i].id)
                  \in {"matched", "ignored", "unmatched"}
       /\ \A i \in 1..Len(tracks) :
              (toggleIgnore(tracks[i].id) /\ getStatus(tracks[i].id) = "matched") =>
                  /\ getStatusIn(mappingByTrack', ignoredTrackIds', tracks[i].id) = "ignored"
                  /\ tracks[i].id \notin DOMAIN mappingByTrack']_vars

\* a track is ignored and nothing is mapped, with candidates at hand
IgnoredWithEmptyTable ==
    /\ ignoredTrackIds # {}
    /\ mappingByTrack = <<>>
    /\ hiResFiles # <<>>
    /\ rekordboxDoc # <<>>

ClearResetsMappingsOnly ==
    [][clearMappings =>
           /\ mappingByTrack' = <<>>
           /\ ignoredTrackIds' = {}
           /\ \A i \in 1..Len(tracks') :
                  getStatusIn(mappingByTrack', ignoredTrackIds', tracks'[i].id) = "unmatched"
           /\ UNCHANGED <<tracks, rekordboxDoc, basePath, hiResFiles, activeTrackId>>]_vars

\* every track is unmatched while the active track is the last one and the
\* base path is a typed one
AllUnmatchedPastFirstTrack ==
    /\ Len(tracks) >= 2
    /\ mappingByTrack = <<>>
    /\ ignoredTrackIds = {}
    /\ activeTrackId = tracks[Len(tracks)].id
    /\ activeTrackId # tracks[1].id
    /\ basePath \in BasePathInputs
    /\ hiResFiles # <<>>

\* C12 as stated: the Location an export writes for a mapped entry is the
\* resolved location stored in the mapping at its confirm.
ExportWritesStoredLocation ==
    download # <<>> =>
        \A i \in 1..Len(download[1]) :
            LET id == trackIdOf(rekordboxDoc[1][i], i - 1)
            IN  id \in DOMAIN mappingByTrack =>
                    download[1][i].Location = mappingByTrack[id].resolvedPath

\* C12: the Location an export writes for a mapped entry is encoded from the
\* base path at the time of the export and the mapping's relative path; it is
\* the stored resolved location when that was encoded from a base path that
\* encodes alike, and differs from it after an edit to another base path.
ExportEncodesCurrentBasePath ==
    download # <<>> =>
        \A i \in 1..Len(download[1]) :
            LET id == trackIdOf(rekordboxDoc[1][i], i - 1)
                current == buildRekordboxPath(basePath, mappingByTrack[id].relativePath)
            IN  id \in DOMAIN mappingByTrack =>
                    /\ download[1][i].Location = current
                    /\ (download[1][i].Location = mappingByTrack[id].resolvedPath)
                           <=> (mappingByTrack[id].resolvedPath = current)
                    /\ \E base \in BasePathInputs \cup {seededBasePath(tracks)} :
                           mappingByTrack[id].resolvedPath =
                               buildRekordboxPath(base, mappingByTrack[id].relativePath)

\* an export wrote a mapped entry a Location other than the stored one
ExportedLocationNotTheStoredOne ==
    /\ download # <<>>
    /\ \E i \in 1..Len(download[1]) :
           LET id == trackIdOf(rekordboxDoc[1][i], i - 1)
           IN  /\ id \in DOMAIN mappingByTrack
               /\ download[1][i].Location # mappingByTrack[id].resolvedPath

\* C13 as stated: the tracks of a loaded document carry pairwise distinct
\* ids, the native TrackID where there is one and the positional fallback
\* otherwise, and elementIndex values equal to the document positions.
LoadedTrackIdsDistinct ==
    rekordboxDoc # <<>> =>
        /\ Len(tracks) = Len(rekordboxDoc[1])
        /\ \A i \in 1..Len(tracks) :
               /\ tracks[i].elementIndex = i - 1
               /\ tracks[i].id = IF rekordboxDoc[1][i].TrackID # <<>>
                                  THEN rekordboxDoc[1][i].TrackID
                                  ELSE <<"t", "r", "a", "c", "k", "-">> \o toDecimal(i - 1)
               /\ \A j \in 1..Len(tracks) : i # j => tracks[i].id # tracks[j].id

\* C14 as stated: the encoded location is the host-qualified prefix before a
\* joined path that starts with a slash, and the bare prefix before a joined
\* path that starts with a drive letter.
EncodeBarePrefixForDrivePath ==
    \A id \in DOMAIN mappingByTrack :
        LET joined == joinedPath(basePath, mappingByTrack[id].relativePath)
        IN  mappingByTrack[id].resolvedPath =
                encodeURI((IF startsWith(joined, <<"/">>) THEN FileLocalhost ELSE FileBare) \o joined)

\* C14: the encoded location always starts with the host-qualified prefix
\* and a slash: the prefix stands right before a joined path that starts with
\* a slash, and one more slash separates it from a joined path that starts
\* with a drive letter; the bare prefix is never written.
EncodeHostPrefixAlways ==
    \A id \in DOMAIN mappingByTrack :
        LET joined == joinedPath(basePath, mappingByTrack[id].relativePath)
            location == mappingByTrack[id].resolvedPath
        IN  /\ startsWith(location, FileLocalhost \o <<"/">>)
            /\ startsWith(joined, <<"/">>) => location = encodeURI(FileLocalhost \o joined)
            /\ hasDrivePrefix(joined) =>
                   /\ location = encodeURI(FileLocalhost \o <<"/">> \o joined)
                   /\ location[Len(FileLocalhost) + 3] = ":"

\* a track is mapped under a drive-letter base path
MappedUnderDriveLetterBase ==
    \E id \in DOMAIN mappingByTrack :
        hasDrivePrefix(joinedPath(basePath, mappingByTrack[id].relativePath))

\* C15 as stated: decoding the encoded location gives the prefix-stripped,
\* slash-normalized base, a slash and the relative path.
DecodeOfEncodeIsBaseAndRelative ==
    \A id \in DOMAIN mappingByTrack :
        decodeRekordboxPath(mappingByTrack[id].resolvedPath) =
            cleanedBase(basePath) \o <<"/">> \o mappingByTrack[id].relativePath

\* C15: decoding the encoded location gives the prefix-stripped,
\* slash-normalized base, a slash and the relative path when the base is
\* POSIX style, and the same behind one more leading slash when the base is
\* drive-letter style; in both cases the decoded path ends with the slash
\* and the relative path.
DecodeOfEncodeKeepsRelative ==
    \A id \in DOMAIN mappingByTrack :
        LET relative == mappingByTrack[id].relativePath
            plain == cleanedBase(basePath) \o <<"/">> \o relative
            decoded == decodeRekordboxPath(mappingByTrack[id].resolvedPath)
        IN  /\ decoded = IF startsWith(plain, <<"/">>) THEN plain ELSE <<"/">> \o plain
            /\ endsWith(decoded, <<"/">> \o relative)

\* a track is mapped under a drive-letter base path to a file whose relative
\* path holds a blank and a folder
BlankPathMappedUnderDriveLetterBase ==
    \E id \in DOMAIN mappingByTrack :
        /\ hasDrivePrefix(cleanedBase(basePath))
        /\ includes(mappingByTrack[id].relativePath, <<" ">>)
        /\ includes(mappingByTrack[id].relativePath, <<"/">>)
        /\ includes(mappingByTrack[id].resolvedPath, <<"%", "2", "0">>)

\* C16: for every track and candidate the score lies between 0 and 1
\* (0 and 1000 thousandths), and it is 0 when the artist, a blank and the
\* title hold no letter and no digit, whatever the candidate is.
ScoreWithinUnitInterval ==
    \A i \in 1..Len(tracks) : \A j \in 1..Len(hiResFiles) :
        LET text == tracks[i].artist \o <<" ">> \o tracks[i].title
            score == scoreMatch(tracks[i], hiResFiles[j])
        IN  /\ score \in 0..1000
            /\ (\A k \in 1..Len(text) : ~IsAlnum(LowerChar(text[k]))) => score = 0

\* a candidate scores the full 1 for one track while the other track of the
\* document holds no token
FullScoreBesideTokenlessTrack ==
    /\ \E i \in 1..Len(tracks) : \E j \in 1..Len(hiResFiles) :
           scoreMatch(tracks[i], hiResFiles[j]) = 1000
    /\ \E i \in 1..Len(tracks) : tokenize(tracks[i].artist \o <<" ">> \o tracks[i].title) = <<>>

\* C17 as stated: the title bonus is 0.15 (150 thousandths) exactly when the
\* lower-cased file name without its extension, the last dot and what
\* follows it, contains the lower-cased first 14 characters of the title,
\* and 0 otherwise.
TitleBonusIgnoresExtension ==
    \A i \in 1..Len(tracks) : \A j \in 1..Len(hiResFiles) :
        LET name == hiResFiles[j].name
            lastDots == {k \in 1..(Len(name) - 1) :
                            name[k] = "." /\ \A l \in (k + 1)..Len(name) : name[l] # "."}
            stem == IF lastDots = {} THEN name
                    ELSE SubSeq(name, 1, (CHOOSE k \in lastDots : TRUE) - 1)
            start == SubSeq(toLowerCase(tracks[i].title), 1, Min(14, Len(tracks[i].title)))
        IN  titleHit(tracks[i], hiResFiles[j]) =
                IF includes(toLowerCase(stem), start) THEN 150 ELSE 0

\* C18: the ranked candidate list of the active track runs by score
\* descending and, among equal scores, by relativePath ascending in the
\* order of localeCompare, and it is the same list when the candidates are
\* supplied reversed or rotated.
RankingOrderedAndDeterministic ==
    LET ranked == filteredHiResIn(tracks, activeTrackId, hiResFiles)
        n == Len(hiResFiles)
        reversed == [i \in 1..n |-> hiResFiles[n + 1 - i]]
        rotated == [i \in 1..n |-> hiResFiles[(i % n) + 1]]
    IN  /\ \A i \in 1..Len(ranked) : \A j \in (i + 1)..Len(ranked) :
               \/ ranked[i].score > ranked[j].score
               \/ /\ ranked[i].score = ranked[j].score
                  /\ localeCompare(ranked[i].file.relativePath, ranked[j].file.relativePath) < 0
        /\ filteredHiResIn(tracks, activeTrackId, reversed) = ranked
        /\ filteredHiResIn(tracks, activeTrackId, rotated) = ranked

\* the ranking of the active track holds two candidates of one positive
\* score above a candidate of a lower positive score
RankingWithTieAboveLower ==
    LET ranked == filteredHiResIn(tracks, activeTrackId, hiResFiles)
    IN  /\ Len(ranked) >= 3
        /\ ranked[1].score = ranked[2].score
        /\ ranked[Len(ranked)].score < ranked[1].score
        /\ ranked[Len(ranked)].score > 0

\* C19 as stated: the suggestions of the active track are the first five at
\* most of the candidates with a positive score, taken from the ranking of
\* the whole candidate set, whatever the candidate search text and the
\* extension filter are.
SuggestionsFromWholeCandidateSet ==
    LET whole == sort(scoredHiResIn(tracks, activeTrackId, hiResFiles), "score")
        positive == SelectSeq(whole, LAMBDA item : item.score > 0)
    IN  suggestionsIn(tracks, activeTrackId, hiResFiles) =
            SubSeq(positive, 1, IF Len(positive) < 5 THEN Len(positive) ELSE 5)

\* C20: a change of the status filter, the bitrate filter, the track search
\* text, the candidate search text or the extension filter leaves the track
\* list, the candidate set, the mapping table and the ignore set as they were.
FiltersLeaveStoredData ==
    [][(\/ \E value \in StatusFilterInputs : setStatusFilter(value)
        \/ \E value \in BitRateFilterInputs : setBitRateFilter(value)
        \/ \E text \in TrackSearchInputs : setTrackSearch(text)
        \/ \E text \in HiResSearchInputs : setHiResSearch(text)
        \/ \E value \in ExtensionFilterInputs : setExtensionFilter(value)
        \/ filters' # filters) =>
           UNCHANGED <<tracks, hiResFiles, mappingByTrack, ignoredTrackIds>>]_vars

\* every filter is off its initial value while a track is ignored, another
\* is mapped, and the candidate set keeps a file the extension filter hides
AllFiltersSetOverStoredData ==
    /\ statusFilter # "unmatched"
    /\ bitRateFilter # "all"
    /\ trackSearch # <<>>
    /\ hiResSearch # <<>>
    /\ extensionFilter # AllTypes
    /\ ignoredTrackIds # {}
    /\ mappingByTrack # <<>>
    /\ \E i \in 1..Len(hiResFiles) : ~passesHiResFilter(hiResFiles[i])

\* C21 as stated: after a successful load of a document that holds a track,
\* the base path is the decoded location of the first track cut before its
\* last separator when there is one past position 0, and the whole decoded
\* location otherwise; it is never the value an earlier document left.
LoadSeedsBasePathFromFirstTrack ==
    [][\A read \in LoadReads :
           (read.kind = "xml" /\ read.collection # <<>> /\ parseRekordboxFileResume(read)) =>
               LET location == backslashesToSlashes(decodeRekordboxPath(read.collection[1].Location))
                   lastSlash == lastIndexOf(location, "/")
               IN  basePath' = IF lastSlash > 0 THEN sliceTo(location, lastSlash) ELSE location]_vars

\* C22: a successful read of a well-formed descriptor ends with no error
\* message and with one track per TRACK element, in document order; the
\* location of a track is the stored location without its prefix, with its
\* escapes decoded when they all decode and left as they are when one does not.
FailedDecodeKeepsLoad ==
    [][\A read \in LoadReads :
           (read.kind = "xml" /\ parseRekordboxFileResume(read)) =>
               /\ xmlError' = ""
               /\ ~loadingXml'
               /\ rekordboxDoc' = <<read.collection>>
               /\ Len(tracks') = Len(read.collection)
               /\ \A i \in 1..Len(read.collection) :
                      LET stored == read.collection[i].Location
                          stripped == removeFirst(removeFirst(stored, FileLocalhost), FileBare)
                      IN  /\ tracks'[i].elementIndex = i - 1
                          /\ tracks'[i].id = trackIdOf(read.collection[i], i - 1)
                          /\ tracks'[i].location =
                                 IF decodeURI(stripped) = URIError THEN stripped
                                 ELSE decodeURI(stripped)
                          /\ decodeRekordboxPath(stored) = tracks'[i].location]_vars

\* a loaded document lists, after a track whose location decoded, a track
\* whose location kept its percent sign
LoadedWithUndecodedLocation ==
    /\ ~loadingXml
    /\ xmlError = ""
    /\ Len(tracks) = 2
    /\ ~includes(tracks[1].location, <<"%">>)
    /\ includes(tracks[2].location, <<"%">>)
    /\ decodeURI(tracks[2].location) = URIError

\* C23: toggleIgnore of a listed track, followed by what toggleIgnore of the
\* same track does in the state it leaves, gives back the mapping table and
\* the ignore set of the start when the track was unmatched; when the track
\* was matched it leaves the track unmatched, without its mapping and out of
\* the ignore set, and the other mappings as they were.
ToggleTwiceRestoresUnmatched ==
    [][\A i \in 1..Len(tracks) :
           toggleIgnore(tracks[i].id) =>
               LET id == tracks[i].id
                   mapping == toggledMapping(mappingByTrack', ignoredTrackIds', id)
                   ignored == toggledIgnored(ignoredTrackIds', id)
               IN  /\ getStatus(id) = "unmatched" =>
                          /\ id \in ignoredTrackIds'
                          /\ mapping = mappingByTrack
                          /\ ignored = ignoredTrackIds
                   /\ getStatus(id) = "matched" =>
                          /\ getStatusIn(mapping, ignored, id) = "unmatched"
                          /\ mapping # mappingByTrack
                          /\ \A other \in DOMAIN mappingByTrack \ {id} :
                                 other \in DOMAIN mapping /\ mapping[other] = mappingByTrack[other]
                          /\ ignored = ignoredTrackIds]_vars

\* the first track is ignored and holds no mapping while the second is matched
FirstIgnoredSecondMatched ==
    /\ Len(tracks) >= 2
    /\ tracks[1].id # tracks[2].id
    /\ getStatus(tracks[1].id) = "ignored"
    /\ getStatus(tracks[2].id) = "matched"
    /\ ~loadingXml

\* C24: in every reachable state, a load in flight or not, every key of the
\* mapping table and every member of the ignore set is the id of a listed
\* track; and a step that changes the track list or the retained document is
\* the end of a load, which leaves the mapping table and the ignore set empty
\* in that same step.
MappingsAndIgnoresNameListedTracks ==
    /\ [](\A id \in DOMAIN mappingByTrack \cup ignoredTrackIds :
              \E i \in 1..Len(tracks) : tracks[i].id = id)
    /\ [][(tracks' # tracks \/ rekordboxDoc' # rekordboxDoc) =>
              /\ loadingXml /\ ~loadingXml'
              /\ mappingByTrack' = <<>>
              /\ ignoredTrackIds' = {}]_vars

\* a load is in flight over a document of two tracks, one matched and one ignored
LoadInFlightOverWorkedSession ==
    /\ loadingXml
    /\ Len(tracks) = 2
    /\ mappingByTrack # <<>>
    /\ ignoredTrackIds # {}

\* C25 as stated: in every reachable state the relativePath of every
\* mapping is the relativePath of a file of the current candidate set.
MappedFilesAreCandidates ==
    \A id \in DOMAIN mappingByTrack :
        \E i \in 1..Len(hiResFiles) :
            hiResFiles[i].relativePath = mappingByTrack[id].relativePath

\* C26: the location buildRekordboxPath returns begins with the
\* host-qualified prefix and a slash, for the location stored with every
\* mapping and for every base path, the empty one included, joined with the
\* relative path of every candidate.
EncodedLocationUnderLocalhost ==
    /\ \A id \in DOMAIN mappingByTrack :
           SubSeq(mappingByTrack[id].resolvedPath, 1, Len(FileLocalhost) + 1) = FileLocalhost \o <<"/">>
    /\ \A base \in CodecBases \cup {basePath} : \A i \in 1..Len(hiResFiles) :
           SubSeq(buildRekordboxPath(base, hiResFiles[i].relativePath), 1, Len(FileLocalhost) + 1)
               = FileLocalhost \o <<"/">>

\* both tracks are mapped under a base path that is empty or blank
MappedUnderEmptyBase ==
    /\ trim(basePath) = <<>>
    /\ Len(tracks) = 2
    /\ \A i \in 1..Len(tracks) : tracks[i].id \in DOMAIN mappingByTrack

\* C27: a load in flight is followed by a state with the loading flag down,
\* and a pick in flight by a state with the picking flag down; the end of a
\* load puts the loading flag down on each of its three outcomes and leaves
\* an error message exactly when the read failed or the text was malformed;
\* the end of a pick puts the picking flag down on each of its outcomes; and
\* nothing but these ends puts a flag down.
LoadsAndPicksEnd ==
    /\ loadingXml ~> ~loadingXml
    /\ pickingHiRes ~> ~pickingHiRes
    /\ [][/\ \A read \in LoadReads :
                 parseRekordboxFileResume(read) =>
                     /\ ~loadingXml'
                     /\ xmlError' # "" <=> read.kind # "xml"
          /\ \A outcome \in PickOutcomes :
                 pickHiResDirectoryResume(outcome) => ~pickingHiRes'
          /\ (loadingXml /\ ~loadingXml') =>
                 \E read \in LoadReads : parseRekordboxFileResume(read)
          /\ (pickingHiRes /\ ~pickingHiRes') =>
                 \E outcome \in PickOutcomes : pickHiResDirectoryResume(outcome)]_vars

\* a read has failed over a loaded document while a pick is in flight
ReadFailedWhilePicking ==
    /\ ~loadingXml
    /\ xmlError = "Failed to read file."
    /\ tracks # <<>>
    /\ pickingHiRes

\* C28: the end of a pick that was cancelled or that failed while the folder
\* was enumerated puts the picking flag down and leaves the candidate set,
\* the selected candidate, the mapping table and the ignore set as they
\* were; the start of a pick leaves them as they were too.
FailedPickLeavesCandidates ==
    [][/\ \A outcome \in PickOutcomes :
              (outcome.kind # "walked" /\ pickHiResDirectoryResume(outcome)) =>
                  /\ ~pickingHiRes'
                  /\ UNCHANGED <<hiResFiles, selectedHiResPath, mappingByTrack, ignoredTrackIds>>
       /\ pickHiResDirectory =>
              UNCHANGED <<hiResFiles, selectedHiResPath, mappingByTrack, ignoredTrackIds>>]_vars

\* a pick is in flight over a candidate set, a mapping and an ignored track
PickInFlightOverWorkedSession ==
    /\ pickingHiRes
    /\ hiResFiles # <<>>
    /\ mappingByTrack # <<>>
    /\ ignoredTrackIds # {}

====
